---- MODULE Spec2Model ----
(***************************************************************************)
(* Process-control core of the sdb debugger: Process::launch, attach,      *)
(* resume and Drop (sdb/src/process/mod.rs) with the error channel codec   *)
(* (sdb/src/error.rs).  The debugger (parent) and the forked child are two *)
(* processes whose steps interleave; the kernel's view of the target is    *)
(* the record `proc`.                                                      *)
(***************************************************************************)
EXTENDS Integers, Sequences, FiniteSets, TLC

\* ------------------------------------------------------------- bounds
MaxPathLen == 2     \* paths are byte strings of 1..MaxPathLen bytes
MaxPid == 2         \* fork hands out a pid in 1..MaxPid
MaxResumes == 2     \* resume calls made on one handle
MaxExitCode == 1    \* the target's own exit codes range over 0..MaxExitCode

\* ------------------------------------------------------------- values
BufSize == 1024     \* let mut buffer = [0; 1024]

\* path bytes: NUL, the byte the names of existing executables are made of,
\* and another byte
Bytes == {0, 1, 2}
Paths == UNION {[1..n -> Bytes] : n \in 1..MaxPathLen}
\* the executables the file system holds: the paths made of byte 1 only
Executables == {p \in Paths : \A i \in 1..Len(p) : p[i] = 1}
Pids == 1..MaxPid
ExitCodes == 0..MaxExitCode
\* raw OS error codes that the calls of this program can fail with
\* (EPERM 1, ENOENT 2, ESRCH 3, EINTR 4, ECHILD 10, EAGAIN 11, EACCES 13,
\* EMFILE 24)
PipeErrnos == {24}
ForkErrnos == {11}
TraceErrnos == {1}
ExecErrnos == {2, 13}
WaitErrnos == {4}

\* SdbError, in declaration order; the variant index is the position - 1
Variants == <<"CouldNotCreatePipe", "ForkFailed", "TracingFailed", "ExecFailed",
              "WaitpidFailed", "CouldNotResume", "CouldNotAttach", "Null",
              "SerializeErr", "WriteFd", "DeserializeErr", "ReadFd">>
ErrnoVariants == {"CouldNotCreatePipe", "ForkFailed", "TracingFailed", "ExecFailed",
                  "WaitpidFailed", "CouldNotResume", "CouldNotAttach"}
MsgVariants == {"SerializeErr", "DeserializeErr"}

SdbError(kind, errno) == [kind |-> kind, errno |-> errno]
NoError == SdbError("none", 0)

VariantIndex(kind) == (CHOOSE i \in 1..Len(Variants) : Variants[i] = kind) - 1

\* ------------------------------------------------------------- codec
\* little-endian 32-bit integers, as bincode writes them (floor division
\* gives the two's complement bytes of a negative i32)
LE32(n) ==
  <<n % 256, (n \div 256) % 256, (n \div 65536) % 256, (n \div 16777216) % 256>>

\* the i32 stored at buffer[at .. at + 3]
I32At(b, at) ==
  b[at] + 256 * b[at + 1] + 65536 * b[at + 2]
    + 16777216 * (IF b[at + 3] >= 128 THEN b[at + 3] - 256 ELSE b[at + 3])

\* the codes nix::errno::Errno names on Linux: EPERM (1) to EHWPOISON (133);
\* 41 and 58 are the unused slots of EWOULDBLOCK and EDEADLOCK
ErrnoCodes == (1..133) \ {41, 58}

\* every value of Errno as i32: UnknownErrno is 0
Errnos == {0} \cup ErrnoCodes

\* Errno::from_raw: a code the platform does not name becomes UnknownErrno (0)
deserialize_errno(code) == IF code \in ErrnoCodes THEN code ELSE 0

\* the errno as it would be written most significant byte first
serialize_errno_BigEndian(errno) ==
  <<(errno \div 16777216) % 256, (errno \div 65536) % 256, (errno \div 256) % 256,
    errno % 256>>

\* *errno as i32
serialize_errno(errno) == LE32(errno)

\* bincode::serialize(self): u32 variant index, then the fields (an errno as
\* i32, a message as u64 length and bytes; messages are modelled empty)
Serialize(e) ==
  LE32(VariantIndex(e.kind)) \o
    (IF e.kind \in ErrnoVariants THEN serialize_errno(e.errno)
     ELSE IF e.kind \in MsgVariants THEN LE32(0) \o LE32(0)
     ELSE <<>>)

\* the u64 length at buffer[at .. at + 7] fits what is left of the buffer
LenFits(b, at) ==
  /\ \A k \in 2..7 : b[at + k] = 0
  /\ b[at] + 256 * b[at + 1] <= BufSize - (at + 7)

\* bincode::deserialize(&buffer): Ok(err) or the DeserializeErr made of Err
Deserialize(buffer) ==
  LET idx == I32At(buffer, 1)
  IN  IF idx < 0 \/ idx >= Len(Variants) THEN SdbError("DeserializeErr", 0)
      ELSE LET kind == Variants[idx + 1]
           IN  IF kind \in ErrnoVariants
                 THEN SdbError(kind, deserialize_errno(I32At(buffer, 5)))
                 ELSE IF kind \in MsgVariants /\ ~LenFits(buffer, 5)
                   THEN SdbError("DeserializeErr", 0)
                   ELSE SdbError(kind, 0)

\* the zero-filled buffer after read() stored `data` at its start
FillBuffer(data) == [i \in 1..BufSize |-> IF i <= Len(data) THEN data[i] ELSE 0]

\* buffer.iter().all(|&x| x == 0)
is_empty(buffer) == \A i \in 1..BufSize : buffer[i] = 0

\* SdbError::wait_read_from_fd once read() succeeded with `data`:
\* NoError stands for Ok(None), anything else for Ok(Some(err))
wait_read_from_fd(data) ==
  LET buffer == FillBuffer(data)
  IN  IF is_empty(buffer) THEN NoError ELSE Deserialize(buffer)

\* ------------------------------------------------------------- wait status
Stopped(pid, sig) == [tag |-> "Stopped", pid |-> pid, sig |-> sig, code |-> 0]
Exited(pid, code) == [tag |-> "Exited", pid |-> pid, sig |-> "", code |-> code]
Signaled(pid, sig) == [tag |-> "Signaled", pid |-> pid, sig |-> sig, code |-> 0]
StillAlive == [tag |-> "StillAlive", pid |-> 0, sig |-> "", code |-> 0]

\* the low 8 bits the kernel keeps of exit(n)
ExitStatus(n) == n % 256

\* ------------------------------------------------------------- state
VARIABLES
  ppc,        \* position of the debugger (the caller of launch/attach/resume/drop)
  cpc,        \* position of the forked child
  origin,     \* "none", "launch" or "attach": the constructor that was called
  path,       \* launch's path argument
  debug,      \* launch's debug argument (wait for the initial stop)
  pid,        \* launch's / attach's local pid
  pipe,       \* the error pipe: bytes in flight and which ends are open
  proc,       \* the kernel's record of the target process
  cerr,       \* the error the child is about to write
  childRet,   \* what launch returned inside the child, if it returned there
  pending,    \* the error decoded by the parent, held while it reaps
  result,     \* what launch / attach returned to the debugger
  handle,     \* the Process value
  resumed,    \* what the last resume returned
  resumes,    \* resume calls completed
  teardown,   \* the kernel requests Drop has issued, with their outcomes
  copy,       \* the Process value made by handle.clone(), if one was made
  qpc,        \* position of the copy: "none", "have" or inside its drop
  copyTeardown \* the kernel requests the copy's Drop has issued

vars == <<ppc, cpc, origin, path, debug, pid, pipe, proc, cerr, childRet,
          pending, result, handle, resumed, resumes, teardown,
          copy, qpc, copyTeardown>>

NoPipe == [buf |-> <<>>, pr |-> FALSE, pw |-> FALSE, cr |-> FALSE, cw |-> FALSE]
NoProc == [status |-> "none", pid |-> 0, isChild |-> FALSE, traced |-> FALSE,
           image |-> "none", wstat |-> StillAlive, reported |-> TRUE,
           pendingStop |-> "", killed |-> FALSE]
\* a process some other parent started, running its own program
Foreign(p) == [NoProc EXCEPT !.status = "run", !.pid = p, !.image = "target"]

NoResult == [ret |-> "none", err |-> NoError]
Ok == [ret |-> "ok", err |-> NoError]
Err(e) == [ret |-> "err", err |-> e]

\* struct Process
Process(p, t, s) == [pid |-> p, terminate_on_end |-> t, state |-> s]
NoHandle == Process(0, FALSE, StillAlive)

Init ==
  /\ ppc = "idle"
  /\ cpc = "none"
  /\ origin = "none"
  /\ path = <<>>
  /\ debug = FALSE
  /\ pid = 0
  /\ pipe = NoPipe
  /\ proc \in {NoProc} \cup {Foreign(p) : p \in Pids}
  /\ cerr = NoError
  /\ childRet = NoError
  /\ pending = NoError
  /\ result = NoResult
  /\ handle = NoHandle
  /\ resumed = NoResult
  /\ resumes = 0
  /\ teardown = <<>>
  /\ copy = NoHandle
  /\ qpc = "none"
  /\ copyTeardown = <<>>

\* ------------------------------------------------------------- kernel
Alive(p) == p.status \in {"run", "stop"}
Exists(p) == p.status \in {"run", "stop", "zombie"}

\* the process ends: it becomes a zombie holding its wait status
Terminate(p, st) ==
  [p EXCEPT !.status = "zombie", !.wstat = st, !.reported = FALSE,
            !.pendingStop = "", !.killed = FALSE]

\* every descriptor of the child is closed (exec with O_CLOEXEC, exit, or
\* the locals read_fd / write_fd going out of scope)
CloseChildFds(pp) == [pp EXCEPT !.cr = FALSE, !.cw = FALSE]
CloseParentFds(pp) == [pp EXCEPT !.pr = FALSE, !.pw = FALSE]

\* waitpid(pid, None) has a state change of p to report
WaitReady(p, w) ==
  /\ p.pid = w
  /\ p.isChild \/ p.traced
  /\ \/ p.status = "zombie"
     \/ p.status = "stop" /\ p.traced /\ ~p.reported

\* waitpid(pid, None) has nothing it could ever wait for (ECHILD)
WaitNoChild(p, w) ==
  \/ p.pid # w
  \/ p.status \in {"none", "gone"}
  \/ ~(p.isChild \/ p.traced)

\* the process after waitpid reported its state change: a zombie child is
\* reaped, a zombie tracee of another parent is handed to that parent
AfterWait(p) ==
  IF p.status = "zombie"
    THEN IF p.isChild THEN [p EXCEPT !.status = "gone", !.traced = FALSE]
                      ELSE [p EXCEPT !.traced = FALSE]
    ELSE [p EXCEPT !.reported = TRUE]

\* wait_on_signal(pid): the outcomes waitpid(pid, None) can have now; with
\* none enabled but the interrupted one the call is still blocked
wait_on_signal(p, w) ==
  (IF WaitReady(p, w)
     THEN {[ok |-> TRUE, st |-> p.wstat, errno |-> 0, proc |-> AfterWait(p)]}
     ELSE {})
  \cup (IF WaitNoChild(p, w)
          THEN {[ok |-> FALSE, st |-> StillAlive, errno |-> 10, proc |-> p]}
          ELSE {})
  \cup {[ok |-> FALSE, st |-> StillAlive, errno |-> e, proc |-> p] : e \in WaitErrnos}

\* a ptrace request on a tracee is accepted only while it is in ptrace-stop
PtraceOk(p, w) == p.pid = w /\ p.traced /\ p.status = "stop"

\* ptrace::cont(pid, None)
PtraceCont(p) == [p EXCEPT !.status = "run", !.reported = TRUE]
\* ptrace::detach(pid, None)
PtraceDetach(p) == [p EXCEPT !.status = "run", !.reported = TRUE, !.traced = FALSE]

\* kill(pid, sig) finds a process to signal
KillOk(p, w) == p.pid = w /\ Exists(p)

\* kill(pid, sig): the signal is queued for the process; SIGKILL cannot be
\* blocked and ends it as soon as the kernel delivers it, SIGCONT discards
\* a queued SIGSTOP and finds nothing to continue in a process that is
\* running or in ptrace-stop
Kill(p, w, sig) ==
  IF ~(KillOk(p, w) /\ Alive(p)) THEN p
  ELSE IF sig = "SIGKILL" THEN [p EXCEPT !.killed = TRUE]
  ELSE IF sig = "SIGSTOP" /\ p.status = "run" /\ p.traced
    THEN [p EXCEPT !.pendingStop = "SIGSTOP"]
  ELSE IF sig = "SIGCONT" /\ p.pendingStop = "SIGSTOP"
    THEN [p EXCEPT !.pendingStop = ""]
  ELSE p

HasNul(p) == \E i \in 1..Len(p) : p[i] = 0

\* the pending stop of a traced process takes effect: it enters ptrace-stop
Deliver(p) ==
  IF p.status = "run" /\ p.traced /\ p.pendingStop # ""
    THEN [p EXCEPT !.status = "stop", !.wstat = Stopped(p.pid, p.pendingStop),
                   !.reported = FALSE, !.pendingStop = ""]
    ELSE p

\* ------------------------------------------------------------- launch: parent
\* pub fn launch(path, debug): pipe2(O_CLOEXEC).context(CouldNotCreatePipeSnafu)?
LaunchPipe2(p, d) ==
  /\ ppc = "idle"
  /\ proc.status = "none"
  /\ origin' = "launch"
  /\ path' = p
  /\ debug' = d
  /\ \/ /\ pipe' = [NoPipe EXCEPT !.pr = TRUE, !.pw = TRUE]
        /\ ppc' = "fork"
        /\ UNCHANGED result
     \/ /\ \E e \in PipeErrnos : result' = Err(SdbError("CouldNotCreatePipe", e))
        /\ ppc' = "ret"
        /\ UNCHANGED pipe
  /\ UNCHANGED <<cpc, pid, proc, cerr, childRet, pending, handle, resumed,
                 resumes, teardown,
                 copy, qpc, copyTeardown>>

\* unsafe { fork() }: the parent's side, ForkResult::Parent { child } => Ok(child)
Fork ==
  /\ ppc = "fork"
  /\ \/ /\ \E c \in Pids :
             /\ pid' = c
             /\ proc' = [NoProc EXCEPT !.status = "run", !.pid = c,
                                       !.isChild = TRUE, !.image = "debugger"]
        /\ pipe' = [pipe EXCEPT !.cr = TRUE, !.cw = TRUE]
        /\ cpc' = "traceme"
        /\ ppc' = "drop_wfd"
        /\ UNCHANGED result
     \/ /\ \E e \in ForkErrnos : result' = Err(SdbError("ForkFailed", e))
        /\ pipe' = CloseParentFds(pipe)
        /\ ppc' = "ret"
        /\ UNCHANGED <<pid, proc, cpc>>
  /\ UNCHANGED <<origin, path, debug, cerr, childRet, pending, handle, resumed,
                 resumes, teardown,
                 copy, qpc, copyTeardown>>

\* launch as it would be if the parent kept its write end open while reading
ParentDropWfd_KeepOpen ==
  /\ ppc = "drop_wfd"
  /\ ppc' = "read"
  /\ UNCHANGED <<cpc, origin, path, debug, pid, pipe, proc, cerr, childRet,
                 pending, result, handle, resumed, resumes, teardown,
                 copy, qpc, copyTeardown>>

\* drop(write_fd)
ParentDropWfd ==
  /\ ppc = "drop_wfd"
  /\ pipe' = [pipe EXCEPT !.pw = FALSE]
  /\ ppc' = "read"
  /\ UNCHANGED <<cpc, origin, path, debug, pid, proc, cerr, childRet, pending,
                 result, handle, resumed, resumes, teardown,
                 copy, qpc, copyTeardown>>

\* read() on the pipe returns: bytes are buffered, or every write end is closed
ReadReady == Len(pipe.buf) > 0 \/ ~(pipe.pw \/ pipe.cw)

Min(a, b) == IF a < b THEN a ELSE b

\* SdbError::wait_read_from_fd(&read_fd): read() blocks while the pipe is
\* empty and a write end is open; it gives at most BufSize bytes
ParentRead ==
  /\ ppc = "read"
  /\ \/ /\ ReadReady
        /\ LET n == Min(Len(pipe.buf), BufSize)
               r == wait_read_from_fd(SubSeq(pipe.buf, 1, n))
           IN  /\ pipe' = [pipe EXCEPT !.buf = SubSeq(pipe.buf, n + 1, Len(pipe.buf))]
               /\ pending' = r
               /\ ppc' = IF r = NoError THEN "construct" ELSE "reap"
     \/ /\ pending' = SdbError("ReadFd", 0)
        /\ ppc' = "reap"
        /\ UNCHANGED pipe
  /\ UNCHANGED <<cpc, origin, path, debug, pid, proc, cerr, childRet, result,
                 handle, resumed, resumes, teardown,
                 copy, qpc, copyTeardown>>

\* let _ = wait_on_signal(pid); return Err(err);
ParentReap ==
  /\ ppc = "reap"
  /\ \E o \in wait_on_signal(proc, pid) : proc' = o.proc
  /\ result' = Err(pending)
  /\ pipe' = CloseParentFds(pipe)
  /\ ppc' = "ret"
  /\ UNCHANGED <<cpc, origin, path, debug, pid, cerr, childRet, pending, handle,
                 resumed, resumes, teardown,
                 copy, qpc, copyTeardown>>

\* Ok(Self { pid, terminate_on_end: true, state: if debug { wait_on_signal(pid)? }
\*           else { WaitStatus::Stopped(pid, Signal::SIGSTOP) } })
ParentConstruct ==
  /\ ppc = "construct"
  /\ pipe' = CloseParentFds(pipe)
  /\ IF debug
       THEN \E o \in wait_on_signal(proc, pid) :
              /\ proc' = o.proc
              /\ IF o.ok
                   THEN /\ handle' = Process(pid, TRUE, o.st)
                        /\ result' = Ok
                        /\ ppc' = "have"
                   ELSE /\ result' = Err(SdbError("WaitpidFailed", o.errno))
                        /\ ppc' = "ret"
                        /\ UNCHANGED handle
       ELSE /\ handle' = Process(pid, TRUE, Stopped(pid, "SIGSTOP"))
            /\ result' = Ok
            /\ ppc' = "have"
            /\ UNCHANGED proc
  /\ UNCHANGED <<cpc, origin, path, debug, pid, cerr, childRet, pending, resumed,
                 resumes, teardown,
                 copy, qpc, copyTeardown>>

\* ------------------------------------------------------------- launch: child
\* ForkResult::Child: ptrace::traceme().context(TracingFailedSnafu)
ChildTraceme ==
  /\ cpc = "traceme"
  /\ \/ /\ proc' = [proc EXCEPT !.traced = TRUE]
        /\ cpc' = "cstring"
        /\ UNCHANGED cerr
     \/ /\ \E e \in TraceErrnos : cerr' = SdbError("TracingFailed", e)
        /\ cpc' = "write"
        /\ UNCHANGED proc
  /\ UNCHANGED <<ppc, origin, path, debug, pid, pipe, childRet, pending, result,
                 handle, resumed, resumes, teardown,
                 copy, qpc, copyTeardown>>

\* CString::new(path...).map_err(|_| NullSnafu.build())?  -- the `?` leaves
\* the closure with Err(Null) and the outer `?` leaves launch, in the child
ChildCString ==
  /\ cpc = "cstring"
  /\ IF HasNul(path)
       THEN /\ childRet' = SdbError("Null", 0)
            /\ pipe' = CloseChildFds(pipe)
            /\ cpc' = "caller"
       ELSE /\ cpc' = "execvp"
            /\ UNCHANGED <<childRet, pipe>>
  /\ UNCHANGED <<ppc, origin, path, debug, pid, proc, cerr, pending, result,
                 handle, resumed, resumes, teardown,
                 copy, qpc, copyTeardown>>

\* execvp(c_string, &[c_string]): on success the image is replaced, the
\* O_CLOEXEC descriptors are closed and the exec stop (SIGTRAP) is pending
ChildExecvp ==
  /\ cpc = "execvp"
  /\ IF path \in Executables
       THEN /\ proc' = [proc EXCEPT !.image = "target", !.pendingStop = "SIGTRAP"]
            /\ pipe' = CloseChildFds(pipe)
            /\ cpc' = "target"
            /\ UNCHANGED cerr
       ELSE /\ \E e \in ExecErrnos : cerr' = SdbError("ExecFailed", e)
            /\ cpc' = "write"
            /\ UNCHANGED <<proc, pipe>>
  /\ UNCHANGED <<ppc, origin, path, debug, pid, childRet, pending, result,
                 handle, resumed, resumes, teardown,
                 copy, qpc, copyTeardown>>

\* SdbError::write_to_fd: bincode::serialize, then write(fd, &encoded); the
\* caller's `?` returns Err(WriteFd) from launch when the write fails
write_to_fd(e) ==
  \/ /\ pipe.pr
     /\ pipe' = [pipe EXCEPT !.buf = pipe.buf \o Serialize(e)]
     /\ cpc' = "exit"
     /\ UNCHANGED childRet
  \/ /\ childRet' = SdbError("WriteFd", 0)
     /\ pipe' = CloseChildFds(pipe)
     /\ cpc' = "caller"

\* err.write_to_fd(&write_fd)?  /  error.write_to_fd(&write_fd)?
ChildWrite ==
  /\ cpc = "write"
  /\ write_to_fd(cerr)
  /\ UNCHANGED <<ppc, origin, path, debug, pid, proc, cerr, pending, result,
                 handle, resumed, resumes, teardown,
                 copy, qpc, copyTeardown>>

\* exit(-1)
ChildExit ==
  /\ cpc = "exit"
  /\ Alive(proc)
  /\ proc' = Terminate(proc, Exited(proc.pid, ExitStatus(-1)))
  /\ pipe' = CloseChildFds(pipe)
  /\ cpc' = "dead"
  /\ UNCHANGED <<ppc, origin, path, debug, pid, cerr, childRet, pending, result,
                 handle, resumed, resumes, teardown,
                 copy, qpc, copyTeardown>>

\* the child that returned from launch runs the caller's code (a copy of the
\* debugger) until that ends the process, as main does with exit(-1)
ChildCallerExit ==
  /\ cpc = "caller"
  /\ Alive(proc)
  /\ \E c \in ExitCodes \cup {ExitStatus(-1)} :
       proc' = Terminate(proc, Exited(proc.pid, c))
  /\ cpc' = "dead"
  /\ UNCHANGED <<ppc, origin, path, debug, pid, pipe, cerr, childRet, pending,
                 result, handle, resumed, resumes, teardown,
                 copy, qpc, copyTeardown>>

\* ------------------------------------------------------------- kernel and target
\* the kernel puts the tracee into the stop that is pending for it (the exec
\* stop after image replacement, the SIGSTOP of PTRACE_ATTACH)
KernelStop ==
  /\ Deliver(proc) # proc
  /\ proc' = Deliver(proc)
  /\ UNCHANGED <<ppc, cpc, origin, path, debug, pid, pipe, cerr, childRet,
                 pending, result, handle, resumed, resumes, teardown,
                 copy, qpc, copyTeardown>>

\* the kernel delivers a queued SIGKILL: the process ends
KernelKill ==
  /\ Alive(proc)
  /\ proc.killed
  /\ proc' = Terminate(proc, Signaled(proc.pid, "SIGKILL"))
  /\ UNCHANGED <<ppc, cpc, origin, path, debug, pid, pipe, cerr, childRet,
                 pending, result, handle, resumed, resumes, teardown,
                 copy, qpc, copyTeardown>>

\* the target runs its own program: not before its exec stop was taken
TargetRuns == proc.status = "run" /\ proc.image = "target" /\ proc.pendingStop # "SIGTRAP"

\* the target program ends by itself
TargetExit ==
  /\ TargetRuns
  /\ \E c \in ExitCodes : proc' = Terminate(proc, Exited(proc.pid, c))
  /\ UNCHANGED <<ppc, cpc, origin, path, debug, pid, pipe, cerr, childRet,
                 pending, result, handle, resumed, resumes, teardown,
                 copy, qpc, copyTeardown>>

\* the running target is killed from outside
TargetKilled ==
  /\ TargetRuns
  /\ proc' = Terminate(proc, Signaled(proc.pid, "SIGKILL"))
  /\ UNCHANGED <<ppc, cpc, origin, path, debug, pid, pipe, cerr, childRet,
                 pending, result, handle, resumed, resumes, teardown,
                 copy, qpc, copyTeardown>>

\* the running tracee gets a signal: it stops and its tracer is told (a
\* SIGSTOP queued by PTRACE_ATTACH stays queued behind it)
TargetSignal ==
  /\ TargetRuns
  /\ proc.traced
  /\ proc' = [proc EXCEPT !.status = "stop", !.wstat = Stopped(proc.pid, "SIGINT"),
                          !.reported = FALSE]
  /\ UNCHANGED <<ppc, cpc, origin, path, debug, pid, pipe, cerr, childRet,
                 pending, result, handle, resumed, resumes, teardown,
                 copy, qpc, copyTeardown>>

\* the parent of a process this debugger did not start reaps it
ForeignReaped ==
  /\ proc.status = "zombie"
  /\ ~proc.isChild
  /\ ~proc.traced
  /\ proc' = [proc EXCEPT !.status = "gone"]
  /\ UNCHANGED <<ppc, cpc, origin, path, debug, pid, pipe, cerr, childRet,
                 pending, result, handle, resumed, resumes, teardown,
                 copy, qpc, copyTeardown>>

\* ------------------------------------------------------------- attach
\* ptrace::attach(pid): refused for a missing, dead or already traced process
AttachOk(p, w) == p.pid = w /\ Alive(p) /\ ~p.traced

\* pub fn attach(pid): ptrace::attach(pid).context(CouldNotAttachSnafu)?
Attach(w) ==
  /\ ppc = "idle"
  /\ origin' = "attach"
  /\ pid' = w
  /\ \/ /\ AttachOk(proc, w)
        /\ proc' = [proc EXCEPT !.traced = TRUE, !.pendingStop = "SIGSTOP"]
        /\ ppc' = "attach_wait"
        /\ UNCHANGED result
     \/ /\ result' = Err(SdbError("CouldNotAttach", IF AttachOk(proc, w) THEN 1 ELSE 3))
        /\ ppc' = "ret"
        /\ UNCHANGED proc
  /\ UNCHANGED <<cpc, path, debug, pipe, cerr, childRet, pending, handle, resumed,
                 resumes, teardown,
                 copy, qpc, copyTeardown>>

\* attach as it would be with launch's shortcut: the state is written down
\* without waiting for the kernel to report it
AttachWait_NoWait ==
  /\ ppc = "attach_wait"
  /\ handle' = Process(pid, TRUE, Stopped(pid, "SIGSTOP"))
  /\ result' = Ok
  /\ ppc' = "have"
  /\ UNCHANGED <<cpc, origin, path, debug, pid, pipe, proc, cerr, childRet,
                 pending, resumed, resumes, teardown,
                 copy, qpc, copyTeardown>>

\* Ok(Self { pid, terminate_on_end: true, state: wait_on_signal(pid)? })
AttachWait ==
  /\ ppc = "attach_wait"
  /\ \E o \in wait_on_signal(proc, pid) :
       /\ proc' = o.proc
       /\ IF o.ok
            THEN /\ handle' = Process(pid, TRUE, o.st)
                 /\ result' = Ok
                 /\ ppc' = "have"
            ELSE /\ result' = Err(SdbError("WaitpidFailed", o.errno))
                 /\ ppc' = "ret"
                 /\ UNCHANGED handle
  /\ UNCHANGED <<cpc, origin, path, debug, pid, pipe, cerr, childRet, pending,
                 resumed, resumes, teardown,
                 copy, qpc, copyTeardown>>

\* ------------------------------------------------------------- resume
\* resume as it would be without the `?` on ptrace::cont: a rejected request
\* goes unnoticed and the wait is entered
ResumeCont_NoCheck ==
  /\ ppc = "have"
  /\ resumes < MaxResumes
  /\ proc' = IF PtraceOk(proc, handle.pid) THEN PtraceCont(proc) ELSE proc
  /\ ppc' = "resume_wait"
  /\ UNCHANGED <<cpc, origin, path, debug, pid, pipe, cerr, childRet, pending,
                 result, handle, resumed, resumes, teardown,
                 copy, qpc, copyTeardown>>

\* pub fn resume(&mut self): ptrace::cont(self.pid, None).context(CouldNotResumeSnafu)?
ResumeCont ==
  /\ ppc = "have"
  /\ resumes < MaxResumes
  /\ IF PtraceOk(proc, handle.pid)
       THEN /\ proc' = PtraceCont(proc)
            /\ ppc' = "resume_wait"
            /\ UNCHANGED <<resumed, resumes>>
       ELSE /\ resumed' = Err(SdbError("CouldNotResume", 3))
            /\ resumes' = resumes + 1
            /\ UNCHANGED <<proc, ppc>>
  /\ UNCHANGED <<cpc, origin, path, debug, pid, pipe, cerr, childRet, pending,
                 result, handle, teardown,
                 copy, qpc, copyTeardown>>

\* resume as it would be if the state were written before the wait's result
\* is examined
ResumeWait_StateOnError ==
  /\ ppc = "resume_wait"
  /\ \E o \in wait_on_signal(proc, handle.pid) :
       /\ proc' = o.proc
       /\ handle' = [handle EXCEPT !.state = o.st]
       /\ resumed' = IF o.ok THEN Ok ELSE Err(SdbError("WaitpidFailed", o.errno))
  /\ resumes' = resumes + 1
  /\ ppc' = "have"
  /\ UNCHANGED <<cpc, origin, path, debug, pid, pipe, cerr, childRet, pending,
                 result, teardown,
                 copy, qpc, copyTeardown>>

\* self.state = wait_on_signal(self.pid)?; Ok(())
ResumeWait ==
  /\ ppc = "resume_wait"
  /\ \E o \in wait_on_signal(proc, handle.pid) :
       /\ proc' = o.proc
       /\ IF o.ok
            THEN /\ handle' = [handle EXCEPT !.state = o.st]
                 /\ resumed' = Ok
            ELSE /\ resumed' = Err(SdbError("WaitpidFailed", o.errno))
                 /\ UNCHANGED handle
  /\ resumes' = resumes + 1
  /\ ppc' = "have"
  /\ UNCHANGED <<cpc, origin, path, debug, pid, pipe, cerr, childRet, pending,
                 result, teardown,
                 copy, qpc, copyTeardown>>

\* ------------------------------------------------------------- drop
Call(op, ok) == [op |-> op, ok |-> ok]

\* if self.state == WaitStatus::StillAlive { kill(SIGSTOP); let _ = waitpid(..) }
\* gives the process after the two calls and the calls made
DropStop(p, h) ==
  IF h.state = StillAlive
    THEN LET q == Deliver(Kill(p, h.pid, "SIGSTOP"))
         IN  {[proc |-> o.proc,
               log |-> <<Call("kill SIGSTOP", KillOk(p, h.pid)), Call("waitpid", o.ok)>>]
                : o \in wait_on_signal(q, h.pid)}
    ELSE {[proc |-> p, log |-> <<>>]}

\* fn drop: the pid check, the stop of a running target, ptrace::detach(pid, None)
DropDetach ==
  /\ ppc = "have"
  /\ IF handle.pid # 0
       THEN \E s \in DropStop(proc, handle) :
              LET ok == PtraceOk(s.proc, handle.pid)
              IN  /\ proc' = IF ok THEN PtraceDetach(s.proc) ELSE s.proc
                  /\ teardown' = teardown \o s.log \o <<Call("detach", ok)>>
                  /\ ppc' = "drop_cont"
       ELSE /\ ppc' = "end"
            /\ UNCHANGED <<proc, teardown>>
  /\ UNCHANGED <<cpc, origin, path, debug, pid, pipe, cerr, childRet, pending,
                 result, handle, resumed, resumes,
                 copy, qpc, copyTeardown>>

\* drop as it would be if a failed detach ended the teardown
DropCont_StopOnFailure ==
  /\ ppc = "drop_cont"
  /\ IF teardown[Len(teardown)].ok
       THEN /\ proc' = Kill(proc, handle.pid, "SIGCONT")
            /\ teardown' = Append(teardown, Call("kill SIGCONT", KillOk(proc, handle.pid)))
            /\ ppc' = "drop_kill"
       ELSE /\ ppc' = "end"
            /\ UNCHANGED <<proc, teardown>>
  /\ UNCHANGED <<cpc, origin, path, debug, pid, pipe, cerr, childRet, pending,
                 result, handle, resumed, resumes,
                 copy, qpc, copyTeardown>>

\* kill(self.pid, Signal::SIGCONT)
DropCont ==
  /\ ppc = "drop_cont"
  /\ proc' = Kill(proc, handle.pid, "SIGCONT")
  /\ teardown' = Append(teardown, Call("kill SIGCONT", KillOk(proc, handle.pid)))
  /\ ppc' = "drop_kill"
  /\ UNCHANGED <<cpc, origin, path, debug, pid, pipe, cerr, childRet, pending,
                 result, handle, resumed, resumes,
                 copy, qpc, copyTeardown>>

\* drop as it would be with the terminate_on_end test inverted
DropKill_NoKill ==
  /\ ppc = "drop_kill"
  /\ IF ~handle.terminate_on_end
       THEN /\ proc' = Kill(proc, handle.pid, "SIGKILL")
            /\ teardown' = Append(teardown, Call("kill SIGKILL", KillOk(proc, handle.pid)))
            /\ ppc' = "drop_reap"
       ELSE /\ ppc' = "end"
            /\ UNCHANGED <<proc, teardown>>
  /\ UNCHANGED <<cpc, origin, path, debug, pid, pipe, cerr, childRet, pending,
                 result, handle, resumed, resumes,
                 copy, qpc, copyTeardown>>

\* if self.terminate_on_end { kill(self.pid, Signal::SIGKILL) ...
DropKill ==
  /\ ppc = "drop_kill"
  /\ IF handle.terminate_on_end
       THEN /\ proc' = Kill(proc, handle.pid, "SIGKILL")
            /\ teardown' = Append(teardown, Call("kill SIGKILL", KillOk(proc, handle.pid)))
            /\ ppc' = "drop_reap"
       ELSE /\ ppc' = "end"
            /\ UNCHANGED <<proc, teardown>>
  /\ UNCHANGED <<cpc, origin, path, debug, pid, pipe, cerr, childRet, pending,
                 result, handle, resumed, resumes,
                 copy, qpc, copyTeardown>>

\* ... let _ = waitpid(self.pid, None) }
DropReap ==
  /\ ppc = "drop_reap"
  /\ \E o \in wait_on_signal(proc, handle.pid) :
       /\ proc' = o.proc
       /\ teardown' = Append(teardown, Call("waitpid", o.ok))
  /\ ppc' = "end"
  /\ UNCHANGED <<cpc, origin, path, debug, pid, pipe, cerr, childRet, pending,
                 result, handle, resumed, resumes,
                 copy, qpc, copyTeardown>>

\* ------------------------------------------------------------- clone
\* #[derive(Clone)] on Process: handle.clone() gives a second Process with the
\* same pid, terminate_on_end and state
CloneHandle ==
  /\ ppc = "have"
  /\ qpc = "none"
  /\ copy' = handle
  /\ qpc' = "have"
  /\ UNCHANGED <<ppc, cpc, origin, path, debug, pid, pipe, proc, cerr, childRet,
                 pending, result, handle, resumed, resumes, teardown, copyTeardown>>

\* fn drop of the copy: the pid check, the stop of a running target,
\* ptrace::detach(pid, None)
CopyDropDetach ==
  /\ qpc = "have"
  /\ IF copy.pid # 0
       THEN \E s \in DropStop(proc, copy) :
              LET ok == PtraceOk(s.proc, copy.pid)
              IN  /\ proc' = IF ok THEN PtraceDetach(s.proc) ELSE s.proc
                  /\ copyTeardown' = copyTeardown \o s.log \o <<Call("detach", ok)>>
                  /\ qpc' = "drop_cont"
       ELSE /\ qpc' = "end"
            /\ UNCHANGED <<proc, copyTeardown>>
  /\ UNCHANGED <<ppc, cpc, origin, path, debug, pid, pipe, cerr, childRet, pending,
                 result, handle, resumed, resumes, teardown, copy>>

\* fn drop of the copy: kill(self.pid, Signal::SIGCONT)
CopyDropCont ==
  /\ qpc = "drop_cont"
  /\ proc' = Kill(proc, copy.pid, "SIGCONT")
  /\ copyTeardown' = Append(copyTeardown, Call("kill SIGCONT", KillOk(proc, copy.pid)))
  /\ qpc' = "drop_kill"
  /\ UNCHANGED <<ppc, cpc, origin, path, debug, pid, pipe, cerr, childRet, pending,
                 result, handle, resumed, resumes, teardown, copy>>

\* fn drop of the copy: if self.terminate_on_end { kill(self.pid, Signal::SIGKILL) ...
CopyDropKill ==
  /\ qpc = "drop_kill"
  /\ IF copy.terminate_on_end
       THEN /\ proc' = Kill(proc, copy.pid, "SIGKILL")
            /\ copyTeardown' = Append(copyTeardown, Call("kill SIGKILL", KillOk(proc, copy.pid)))
            /\ qpc' = "drop_reap"
       ELSE /\ qpc' = "end"
            /\ UNCHANGED <<proc, copyTeardown>>
  /\ UNCHANGED <<ppc, cpc, origin, path, debug, pid, pipe, cerr, childRet, pending,
                 result, handle, resumed, resumes, teardown, copy>>

\* fn drop of the copy: ... let _ = waitpid(self.pid, None) }
CopyDropReap ==
  /\ qpc = "drop_reap"
  /\ \E o \in wait_on_signal(proc, copy.pid) :
       /\ proc' = o.proc
       /\ copyTeardown' = Append(copyTeardown, Call("waitpid", o.ok))
  /\ qpc' = "end"
  /\ UNCHANGED <<ppc, cpc, origin, path, debug, pid, pipe, cerr, childRet, pending,
                 result, handle, resumed, resumes, teardown, copy>>

\* ------------------------------------------------------------- specification
Next ==
  \/ \E p \in Paths, d \in BOOLEAN : LaunchPipe2(p, d)
  \/ Fork
  \/ ParentDropWfd
  \/ ParentRead
  \/ ParentReap
  \/ ParentConstruct
  \/ ChildTraceme
  \/ ChildCString
  \/ ChildExecvp
  \/ ChildWrite
  \/ ChildExit
  \/ ChildCallerExit
  \/ KernelStop
  \/ KernelKill
  \/ TargetExit
  \/ TargetKilled
  \/ TargetSignal
  \/ ForeignReaped
  \/ \E w \in Pids : Attach(w)
  \/ AttachWait
  \/ ResumeCont
  \/ ResumeWait
  \/ DropDetach
  \/ DropCont
  \/ DropKill
  \/ DropReap
  \/ CloneHandle
  \/ CopyDropDetach
  \/ CopyDropCont
  \/ CopyDropKill
  \/ CopyDropReap

Spec == Init /\ [][Next]_vars

\* ------------------------------------------------------------- properties
LaunchReturned == origin = "launch" /\ result.ret # "none"
Reaped(p) == p.status \in {"none", "gone"}

\* C1: whenever launch has returned an error, no child created by that call
\* is alive or unreaped.
C1_NoLeakedChild ==
  (LaunchReturned /\ result.ret = "err") => Reaped(proc)

\* C2: launch with a path holding a NUL byte never forks, never returns a
\* handle, and returns Null (unless pipe creation, which comes first, failed).
C2_NulFailsBeforeFork ==
  (origin = "launch" /\ HasNul(path)) =>
    /\ proc.status = "none"
    /\ cpc = "none"
    /\ result.ret # "none" =>
         result.ret = "err" /\ result.err.kind \in {"Null", "CouldNotCreatePipe"}

\* C3: the forked child never returns from launch into the caller's code:
\* it ends in the replaced image or exits nonzero after writing its error.
C3_ChildNeverReturns ==
  /\ childRet = NoError
  /\ cpc # "caller"
  /\ cpc = "dead" => proc.wstat.tag = "Exited" /\ proc.wstat.code # 0

\* C4: when the child's exec failed and its error was relayed, launch returns
\* exactly that ExecFailed error (not WaitpidFailed, not a handle) and the
\* child has been reaped by the time launch returns.
C4_ExecFailedRelayedAndReaped ==
  (LaunchReturned /\ cerr.kind = "ExecFailed" /\ pending = cerr) =>
    /\ result = Err(cerr)
    /\ Reaped(proc)

\* C5: whenever launch returned a handle, the child requested tracing and
\* replaced its image: no failure happened in the child before exec.
C5_HandleImpliesExec ==
  (LaunchReturned /\ result.ret = "ok") =>
    /\ proc.image = "target"
    /\ childRet = NoError

\* before the first resume call on the handle and before any drop of its copy
Fresh == ppc = "have" /\ resumes = 0 /\ qpc \in {"none", "have"}

\* C6: after launch without the initial wait handed out the synthesized
\* Stopped state for a replaced image, the tracee is in its stop whenever the
\* first trace request can be issued.
C6_StoppedBeforeFirstRequest ==
  (Fresh /\ origin = "launch" /\ ~debug /\ proc.image = "target") =>
    proc.status = "stop"

\* C7: a handle returned by launch with the initial wait has state Stopped,
\* and a successful resume of a target that ran to its normal end leaves
\* state = Exited with the target's exit code.
C7_StoppedThenExited ==
  /\ (Fresh /\ origin = "launch" /\ debug) => handle.state.tag = "Stopped"
  /\ (ppc = "have" /\ origin = "launch" /\ debug /\ resumed = Ok
        /\ proc.wstat.tag = "Exited" /\ ~Alive(proc)) =>
       handle.state = Exited(handle.pid, proc.wstat.code)

\* C8 as stated: a handle returned by attach has state Stopped before any
\* resume call.
C8_AttachStopped ==
  (Fresh /\ origin = "attach") => handle.state.tag = "Stopped"

\* C8 amended: before any resume call the state of a handle returned by attach
\* is the first status waitpid reported: Stopped (by attach's SIGSTOP or by
\* a signal that reached the target before it) with the target in that stop,
\* or the Exited / Signaled status of a target that ended between the attach
\* request and the wait.
C8_AttachFirstStatus ==
  (Fresh /\ origin = "attach") =>
    \/ /\ handle.state.tag = "Stopped"
       /\ handle.state = proc.wstat
       /\ proc.status = "stop"
       /\ proc.traced
    \/ /\ handle.state.tag \in {"Exited", "Signaled"}
       /\ handle.state = proc.wstat
       /\ ~Alive(proc)

C8_Witness ==
  Fresh /\ origin = "attach" /\ handle.state = Stopped(handle.pid, "SIGSTOP")

\* C9: a resume call on a handle whose state records the target's end returns
\* CouldNotResume and does not enter the wait.
C9_ResumeAfterExitFails ==
  [][(/\ ppc = "have"
      /\ handle.state.tag \in {"Exited", "Signaled"}
      /\ ppc' = "resume_wait" \/ resumes' # resumes)
       => (ppc' = "have" /\ resumed'.ret = "err"
             /\ resumed'.err.kind = "CouldNotResume")]_vars

C9_Witness ==
  /\ ppc = "have"
  /\ origin = "launch"
  /\ proc.image = "target"
  /\ handle.state.tag = "Exited"
  /\ resumes >= 2
  /\ resumed = Err(SdbError("CouldNotResume", 3))

\* the kernel does deliver a queued SIGKILL
FairSpec == Spec /\ WF_vars(KernelKill)

TornDown == ppc = "end" /\ handle.pid # 0 /\ handle.terminate_on_end

Ops(log) == [i \in DOMAIN log |-> log[i].op]
Sent(log, op) == \E i \in DOMAIN log : log[i].op = op

\* C11: the teardown of a handle obtained by attach does not terminate the
\* target: it sends no SIGKILL and leaves the target detached.
C11_AttachTeardownSpares ==
  (origin = "attach" /\ handle.pid # 0) =>
    /\ ~Sent(teardown, "kill SIGKILL")
    /\ ppc = "end" => ~proc.traced

\* the requests fn drop makes for a handle, in the order it makes them
Sequence(h) ==
  <<"detach", "kill SIGCONT">> \o
    (IF h.terminate_on_end THEN <<"kill SIGKILL", "waitpid">> ELSE <<>>)

IsPrefix(a, b) == Len(a) <= Len(b) /\ a = SubSeq(b, 1, Len(a))

\* C13: the teardown of a handle with a non-sentinel pid attempts detach,
\* then SIGCONT, then (iff terminate_on_end) SIGKILL and the reap, in this
\* order; a failed step skips none of the later ones and the caller is handed
\* no error.
C13_TeardownOrder ==
  handle.pid # 0 =>
    /\ IsPrefix(Ops(teardown), Sequence(handle))
    /\ ppc = "end" => Ops(teardown) = Sequence(handle) /\ result = Ok

C13_Witness ==
  /\ ppc = "end"
  /\ handle.pid # 0
  /\ ~teardown[1].ok
  /\ Len(teardown) = 4
  /\ proc.status = "gone"

\* C15: whenever teardown issues the detach request the target is not
\* running: it is stopped or has ended.
C15_DetachOnQuiescentTarget ==
  [][(ppc = "have" /\ ppc' = "drop_cont") => proc.status # "run"]_vars

\* C16: whenever attach has returned an error, the target is not left traced
\* by this debugger.
C16_AttachErrorLeavesNoTrace ==
  (origin = "attach" /\ result.ret = "err") => ~proc.traced

\* C19: resume leaves pid and terminate_on_end alone, writes state only when
\* it succeeds, and a resume that returns an error leaves the whole handle as
\* it was.
C19_ResumeFrame ==
  [][(ppc \in {"have", "resume_wait"}) =>
       /\ handle'.pid = handle.pid
       /\ handle'.terminate_on_end = handle.terminate_on_end
       /\ handle' # handle => resumed' = Ok /\ resumes' = resumes + 1
       /\ (resumes' # resumes /\ resumed'.ret = "err") => handle' = handle]_vars

C19_Witness ==
  /\ ppc = "have"
  /\ resumes >= 1
  /\ resumed.ret = "err"
  /\ resumed.err.kind = "WaitpidFailed"
  /\ handle.state.tag = "Stopped"
  /\ proc.status = "run"

\* C20: once the handle has observed and reaped the end of its target, its
\* teardown sends no signal to that pid.
C20_NoSignalToReapedPid ==
  (handle.state.tag \in {"Exited", "Signaled"} /\ Reaped(proc)) =>
    /\ ~Sent(teardown, "kill SIGCONT")
    /\ ~Sent(teardown, "kill SIGKILL")

\* the forked child is scheduled until it has exec'd, written its error or
\* returned, and a read() that can return does return
PipeFairSpec ==
  /\ Spec
  /\ WF_vars(ChildTraceme)
  /\ WF_vars(ChildCString)
  /\ WF_vars(ChildExecvp)
  /\ WF_vars(ChildWrite)
  /\ WF_vars(ReadReady /\ ParentRead)

\* C17: the parent's blocking read of the error pipe in launch always
\* returns, whatever the child does and however the two interleave.
C17_ReadTerminates == (ppc = "read") ~> (ppc # "read")

C17_Witness ==
  /\ origin = "launch"
  /\ ppc = "construct"
  /\ pending = NoError
  /\ proc.image = "target"
  /\ pipe.buf = <<>>
  /\ ~pipe.pw /\ ~pipe.cw

\* ------------------------------------------------------------- the codec alone
\* every SdbError value (messages empty)
SdbErrors ==
  {SdbError(k, e) : k \in ErrnoVariants, e \in Errnos} \cup
  {SdbError(Variants[i], 0) : i \in {j \in DOMAIN Variants : Variants[j] \notin ErrnoVariants}}

\* write_to_fd and wait_read_from_fd over one pipe: the writer holds any
\* SdbError value and the only write end, the reader is about to read
CodecInit ==
  /\ ppc = "read"
  /\ cpc = "write"
  /\ origin = "launch"
  /\ path = <<>>
  /\ debug = FALSE
  /\ pid \in Pids
  /\ pipe = [NoPipe EXCEPT !.pr = TRUE, !.cr = TRUE, !.cw = TRUE]
  /\ proc = [NoProc EXCEPT !.status = "run", !.pid = pid, !.isChild = TRUE,
                           !.image = "debugger"]
  /\ cerr \in SdbErrors
  /\ childRet = NoError
  /\ pending = NoError
  /\ result = NoResult
  /\ handle = NoHandle
  /\ resumed = NoResult
  /\ resumes = 0
  /\ teardown = <<>>
  /\ copy = NoHandle
  /\ qpc = "none"
  /\ copyTeardown = <<>>

CodecNext == ChildWrite \/ ParentRead

CodecSpec == CodecInit /\ [][CodecNext]_vars

\* the writer's write_to_fd returned Ok
Written == cpc = "exit"

\* the reader's wait_read_from_fd returned from a read() that succeeded
ReadDone == ppc # "read" /\ pipe.buf = <<>>

\* C14: wait_read_from_fd returns None only when nothing was written: every
\* value write_to_fd has written reads back as Some.
C14_NoneOnlyIfNothingWritten == (ReadDone /\ ppc = "construct") => ~Written

\* C18: a TracingFailed or ExecFailed value with any error code that
\* write_to_fd has written reads back from wait_read_from_fd as the same
\* variant with the same code.
C18_RoundTrip ==
  (Written /\ ReadDone /\ cerr.kind \in {"TracingFailed", "ExecFailed"}) =>
    ppc = "reap" /\ pending = cerr

C18_Witness ==
  /\ Written
  /\ ReadDone
  /\ cerr = SdbError("ExecFailed", 133)
  /\ pending = cerr
  /\ ppc = "reap"

\* a handle that exists and whose drop has not ended
HandleLive == ppc \in {"have", "resume_wait", "drop_cont", "drop_kill", "drop_reap"}
CopyLive == qpc \in {"have", "drop_cont", "drop_kill", "drop_reap"}

\* C12: no two live handles own the same pid, and the teardown sequence is
\* run at most once for a traced process, however the handles were made
\* (launch, attach, clone).
C12_SingleOwner ==
  /\ ~(HandleLive /\ CopyLive /\ copy.pid = handle.pid)
  /\ ~(Sent(teardown, "detach") /\ Sent(copyTeardown, "detach"))

====
